---- MODULE Spec2Model ----
(***************************************************************************)
(* Model of the Parahod timetable bot (src/main.py).                       *)
(*                                                                         *)
(* Text is modelled as a sequence of characters, each character a          *)
(* one-element string.  The module is written in ASCII, so a Cyrillic      *)
(* letter is written as a named character: "ru_n" is the lower-case        *)
(* letter EN, "RU_N" its upper-case form, and so on.  Python's 0-based     *)
(* string positions become 1-based sequence positions.                     *)
(*                                                                         *)
(* The module holds one state machine for the bot's command handlers       *)
(* (Spec) and one small specification per pure function that is checked    *)
(* on its own (SpecWeek, SpecParse, SpecMatch, SpecRoom, SpecTail): those  *)
(* draw the function's inputs in Init and apply the function in their one  *)
(* action.                                                                 *)
(*                                                                         *)
(* Of the handlers, add_lesson, del_lesson, set_semester and setgroup are  *)
(* modelled; the read-only ones (start, parahod, show_day) change no       *)
(* document.  A reply is kept as the message it is (MSG_...) with the      *)
(* parse error it quotes, not as its full text.  A document is kept as the *)
(* value json.loads gives back for what json.dumps wrote.                  *)
(***************************************************************************)
EXTENDS Integers, Sequences, FiniteSets, TLC

VARIABLES
    call,       \* a pure function under check: [fn |-> name, ...its inputs]
    ret,        \* what the called function returned, NoRet before the call
    admin_id,   \* ADMIN_ID, read from the environment at start-up
    schedules,  \* the schedule document: group -> day -> slot -> Lesson
    users,      \* the scope-binding document: scope id -> group
    semester,   \* the semester document's "semester_start", None when absent
    cmd,        \* the command handled last (its message and argument text)
    out,        \* the replies the last command sent, in order
    saves,      \* the documents the last command saved, in order
    ncmds,      \* number of commands handled so far
    last_add    \* history: for each key (group, day, slot number), the lesson
                \* of the last accepted add not followed by a delete of the key

vars == <<call, ret, admin_id, schedules, users, semester, cmd, out, saves, ncmds,
          last_add>>

\* Python's None where a string constant or a number may stand
None == "None"
\* Python's None where a text may stand (no text holds the element None)
NoneText == <<None>>
\* Python's None where a parsed tuple may stand
NoParsed == [nothing |-> TRUE]
NoRet == [none |-> TRUE]
NoCall == [fn |-> "-"]
NoCmd == [name |-> "-"]

----------------------------------------------------------------------------
(* Bounds of the model. *)

\* dates are drawn from day ordinals 1..MaxDay
MaxDay == 24
\* weeks specs are drawn from all strings up to this length
MaxSpecLen == 4
\* number of commands in a run of the bot
MaxCmds == 3
\* room tokens are drawn from all strings up to this length
MaxRoomLen == 6
\* the text after the brackets is drawn from up to this many tokens
MaxTailTokens == 3
\* the matcher is called on lessons whose weeks lie in 1..MaxMatchWeek
MaxMatchWeek == 6

----------------------------------------------------------------------------
(* Small arithmetic and set helpers. *)

\* F(v), with v evaluated once and named, as an assignment to a local does
At(v, F(_)) == CHOOSE r \in {F(x) : x \in {v}} : TRUE

SetMin(S) == CHOOSE x \in S : \A y \in S : x <= y
SetMax(S) == CHOOSE x \in S : \A y \in S : y <= x

\* list(range(a, b + 1))
range_list(a, b) == [i \in 1..(IF b >= a THEN b - a + 1 ELSE 0) |-> a + i - 1]

\* sorted(S) of a finite set of integers: ascending
sorted(S) ==
    [k \in 1..Cardinality(S) |->
        CHOOSE x \in S : Cardinality({y \in S : y < x}) = k - 1]

SeqToSet(s) == {s[i] : i \in 1..Len(s)}

\* x in list
list_contains(list, x) == \E i \in 1..Len(list) : list[i] = x

----------------------------------------------------------------------------
(* Text: the str methods and regular expressions the program uses. *)

Digits == {"0", "1", "2", "3", "4", "5", "6", "7", "8", "9"}
DigitVal ==
    [c \in Digits |->
        CASE c = "0" -> 0 [] c = "1" -> 1 [] c = "2" -> 2 [] c = "3" -> 3
          [] c = "4" -> 4 [] c = "5" -> 5 [] c = "6" -> 6 [] c = "7" -> 7
          [] c = "8" -> 8 [] c = "9" -> 9]

\* what \s and str.strip() / str.split() treat as white space
Whitespace == {" ", "\t"}
IsSpace(c) == c \in Whitespace
IsDigit(c) == c \in Digits

\* str.strip()
strip(s) ==
    LET I == {i \in 1..Len(s) : ~IsSpace(s[i])}
    IN  IF I = {} THEN <<>> ELSE SubSeq(s, SetMin(I), SetMax(I))

\* str.lstrip()
lstrip(s) ==
    LET I == {i \in 1..Len(s) : ~IsSpace(s[i])}
    IN  IF I = {} THEN <<>> ELSE SubSeq(s, SetMin(I), Len(s))

\* str.split(): the maximal runs of non-blank characters, in order
split(s) ==
    LET starts == {i \in 1..Len(s) :
                      ~IsSpace(s[i]) /\ (i = 1 \/ IsSpace(s[i - 1]))}
        order == sorted(starts)
        stop(i) == SetMin({j \in i..Len(s) : j = Len(s) \/ IsSpace(s[j + 1])})
    IN  [k \in 1..Len(order) |-> SubSeq(s, order[k], stop(order[k]))]

\* str.split(sep) for a one-character separator: the pieces between the
\* separators, empty pieces kept
split_sep(s, sep) ==
    LET cuts == sorted({i \in 1..Len(s) : s[i] = sep})
        n == Len(cuts)
        from(k) == IF k = 1 THEN 1 ELSE cuts[k - 1] + 1
        to(k) == IF k = n + 1 THEN Len(s) ELSE cuts[k] - 1
    IN  [k \in 1..(n + 1) |-> SubSeq(s, from(k), to(k))]

\* str.find(ch) for a one-character needle, as a 1-based position; 0 is
\* Python's -1
find(s, ch) ==
    LET I == {i \in 1..Len(s) : s[i] = ch}
    IN  IF I = {} THEN 0 ELSE SetMin(I)

\* str.startswith(prefix)
startswith(s, prefix) ==
    /\ Len(prefix) <= Len(s)
    /\ SubSeq(s, 1, Len(prefix)) = prefix

\* s.split(sub, 1)[1] for a sub that occurs in s: the text after the first
\* occurrence of sub
after_first(s, sub) ==
    LET I == {i \in 1..(Len(s) - Len(sub) + 1) :
                 SubSeq(s, i, i + Len(sub) - 1) = sub}
    IN  SubSeq(s, SetMin(I) + Len(sub), Len(s))

\* \d+ against the whole of s
all_digits(s) == s # <<>> /\ \A i \in 1..Len(s) : IsDigit(s[i])

\* int(s) of a string of digits
RECURSIVE digits_value(_)
digits_value(s) ==
    IF s = <<>> THEN 0
    ELSE digits_value(SubSeq(s, 1, Len(s) - 1)) * 10 + DigitVal[s[Len(s)]]

\* " ".join(tokens)
RECURSIVE join(_)
join(tokens) ==
    IF tokens = <<>> THEN <<>>
    ELSE IF Len(tokens) = 1 THEN tokens[1]
    ELSE tokens[1] \o <<" ">> \o join(Tail(tokens))

\* every string over alphabet A of length at most n
StringsUpTo(A, n) == UNION {[1..k -> A] : k \in 0..n}

----------------------------------------------------------------------------
(* Letters.  str.lower() maps each upper-case letter to its lower-case     *)
(* form and leaves every other character alone.                            *)

LowerOf ==
    [c \in {"RU_P", "RU_O", "RU_N", "RU_E", "RU_D", "RU_L", "RU_SOFT", "RU_I",
            "RU_K", "RU_V", "RU_T", "RU_R", "RU_S", "RU_A", "RU_CH", "RU_G",
            "RU_YA", "RU_TS", "RU_U", "RU_B", "RU_Z",
            "A", "B", "D", "E", "G", "N", "O", "V", "X"} |->
        CASE c = "RU_P" -> "ru_p" [] c = "RU_O" -> "ru_o" [] c = "RU_N" -> "ru_n"
          [] c = "RU_E" -> "ru_e" [] c = "RU_D" -> "ru_d" [] c = "RU_L" -> "ru_l"
          [] c = "RU_SOFT" -> "ru_soft" [] c = "RU_I" -> "ru_i"
          [] c = "RU_K" -> "ru_k" [] c = "RU_V" -> "ru_v" [] c = "RU_T" -> "ru_t"
          [] c = "RU_R" -> "ru_r" [] c = "RU_S" -> "ru_s" [] c = "RU_A" -> "ru_a"
          [] c = "RU_CH" -> "ru_ch" [] c = "RU_G" -> "ru_g"
          [] c = "RU_YA" -> "ru_ya" [] c = "RU_TS" -> "ru_ts"
          [] c = "RU_U" -> "ru_u" [] c = "RU_B" -> "ru_b" [] c = "RU_Z" -> "ru_z"
          [] c = "A" -> "a" [] c = "B" -> "b" [] c = "D" -> "d" [] c = "E" -> "e"
          [] c = "G" -> "g" [] c = "N" -> "n" [] c = "O" -> "o" [] c = "V" -> "v"
          [] c = "X" -> "x"]

lower_char(c) == IF c \in DOMAIN LowerOf THEN LowerOf[c] ELSE c

\* str.lower()
lower(s) == [i \in 1..Len(s) |-> lower_char(s[i])]

\* str.replace(old, new) for one-character old and new
replace(s, old, new) == [i \in 1..Len(s) |-> IF s[i] = old THEN new ELSE s[i]]

\* str.replace(" ", "")
remove_spaces(s) == SelectSeq(s, LAMBDA c : c # " ")

----------------------------------------------------------------------------
(* Room validator: src/main.py ROOM_DIGITS_RE, ROOM_CANON,                 *)
(* _normalize_room_token, _parse_room_from_tokens.                         *)

\* the {1,5} of ROOM_DIGITS_RE
ROOM_MAX_DIGITS == 5

\* ROOM_DIGITS_RE.fullmatch(raw)
ROOM_DIGITS_RE_fullmatch(raw) == all_digits(raw) /\ Len(raw) <= ROOM_MAX_DIGITS

ROOM_DO == <<"ru_d", "/", "ru_o">>
ROOM_SZAL == <<"ru_s", "/", "ru_z", "ru_a", "ru_l">>

\* the keys of ROOM_CANON; each maps to itself
ROOM_CANON == {ROOM_DO, ROOM_SZAL}

\* the error messages of the room validator
ERR_ROOM_MISSING == "room: not given"
ERR_ROOM_ONE_WORD == "room: must be one word"
ERR_ROOM_INVALID == "room: not allowed"

\* _normalize_room_token without the lower-casing: a faulty variant
normalize_room_token_no_lower(tok) == replace(strip(tok), "\\", "/")

_normalize_room_token(tok) == replace(lower(strip(tok)), "\\", "/")

\* start_idx is Python's 0-based index; the result is the pair (room, error)
_parse_room_from_tokens(tokens, start_idx) ==
    IF start_idx >= Len(tokens) THEN
        [room |-> NoneText, err |-> ERR_ROOM_MISSING]
    ELSE IF Len(tokens) - start_idx # 1 THEN
        [room |-> NoneText, err |-> ERR_ROOM_ONE_WORD]
    ELSE
        LET raw == _normalize_room_token(tokens[start_idx + 1])
        IN  IF raw \in ROOM_CANON THEN [room |-> raw, err |-> None]
            ELSE IF ROOM_DIGITS_RE_fullmatch(raw) THEN [room |-> raw, err |-> None]
            ELSE [room |-> NoneText, err |-> ERR_ROOM_INVALID]

----------------------------------------------------------------------------
(* Recurrence Parser: src/main.py parse_weeks. *)

\* parse_weeks' default horizon, the one parse_add_lesson_args passes
DEFAULT_MAX_WEEK == 30

\* range_re = ^\s*(\d+)\s*-\s*(\d+)\s*$ : the positions of a "-" that splits
\* s into two blank-padded numbers (at most one position does)
range_re_dashes(s) ==
    {i \in 1..Len(s) :
        /\ s[i] = "-"
        /\ all_digits(strip(SubSeq(s, 1, i - 1)))
        /\ all_digits(strip(SubSeq(s, i + 1, Len(s))))}

\* num_re = ^\s*(\d+)\s*$
num_re_match(s) == all_digits(strip(s))

\* the test "1 <= w <= max_week" without its upper bound: a faulty variant
in_horizon_no_upper(w, max_week) == 1 <= w

\* 1 <= w <= max_week
in_horizon(w, max_week) == 1 <= w /\ w <= max_week

\* the weeks one comma-separated part adds to the set
part_weeks(raw_part, max_week) ==
    LET part == strip(raw_part)
        dashes == range_re_dashes(part)
    IN  IF part = <<>> THEN {}
        ELSE IF dashes # {} THEN
            LET i == CHOOSE i \in dashes : TRUE
                a0 == digits_value(strip(SubSeq(part, 1, i - 1)))
                b0 == digits_value(strip(SubSeq(part, i + 1, Len(part))))
                a == IF a0 > b0 THEN b0 ELSE a0
                b == IF a0 > b0 THEN a0 ELSE b0
            IN  {w \in a..b : in_horizon(w, max_week)}
        ELSE IF num_re_match(part) THEN
            LET w == digits_value(strip(part))
            IN  IF in_horizon(w, max_week) THEN {w} ELSE {}
        ELSE {}

\* parse_weeks without the fall-back to all weeks when no week is named: a
\* faulty variant
parse_weeks_no_fallback(spec, max_week) ==
    IF spec = <<>> THEN range_list(1, max_week)
    ELSE
        LET parts == split_sep(spec, ",")
        IN  sorted(UNION {part_weeks(parts[i], max_week) : i \in 1..Len(parts)})

parse_weeks(spec, max_week) ==
    IF spec = <<>> THEN range_list(1, max_week)
    ELSE
        LET parts == split_sep(spec, ",")
            weeks == UNION {part_weeks(parts[i], max_week) : i \in 1..Len(parts)}
        IN  IF weeks # {} THEN sorted(weeks) ELSE range_list(1, max_week)

----------------------------------------------------------------------------
(* Week Calculator: src/main.py week_number. *)

\* a date is its proleptic day ordinal; (today - start).days is the difference
days_between(today, start) == today - start

week_number_no_plus_one(today, start) ==
    LET delta_days == days_between(today, start)
    IN  IF delta_days >= 0 THEN delta_days \div 7 ELSE 0

week_number(today, start) ==
    LET delta_days == days_between(today, start)
    IN  IF delta_days >= 0 THEN (delta_days \div 7) + 1 ELSE 0

----------------------------------------------------------------------------
(* Lesson and Lesson Matcher: src/main.py Lesson, lesson_matches_week. *)

\* the dataclass Lesson, and asdict(lesson), which has the same fields
Lesson(title, room, weeks_spec, weeks, parity) ==
    [title |-> title, room |-> room, weeks_spec |-> weeks_spec,
     weeks |-> weeks, parity |-> parity]


\* lesson_matches_week with the two parity tests exchanged: a faulty variant
lesson_matches_week_swapped(lesson, wk) ==
    IF wk <= 0 THEN FALSE
    ELSE IF ~list_contains(lesson.weeks, wk) THEN FALSE
    ELSE IF lesson.parity = "odd" /\ wk % 2 = 1 THEN FALSE
    ELSE IF lesson.parity = "even" /\ wk % 2 = 0 THEN FALSE
    ELSE TRUE

lesson_matches_week(lesson, wk) ==
    IF wk <= 0 THEN FALSE
    ELSE IF ~list_contains(lesson.weeks, wk) THEN FALSE
    ELSE IF lesson.parity = "odd" /\ wk % 2 = 0 THEN FALSE
    ELSE IF lesson.parity = "even" /\ wk % 2 = 1 THEN FALSE
    ELSE TRUE

----------------------------------------------------------------------------
(* Fixed reference data: src/main.py SLOTS, RU_WEEKDAYS. *)

SLOTS == [n \in 1..4 |->
            CASE n = 1 -> "8:30-10:05" [] n = 2 -> "10:20-11:55"
              [] n = 3 -> "12:10-13:45" [] n = 4 -> "14:45-16:20"]

PONEDELNIK == <<"ru_p", "ru_o", "ru_n", "ru_e", "ru_d", "ru_e", "ru_l", "ru_soft",
                "ru_n", "ru_i", "ru_k">>
VTORNIK == <<"ru_v", "ru_t", "ru_o", "ru_r", "ru_n", "ru_i", "ru_k">>
SREDA == <<"ru_s", "ru_r", "ru_e", "ru_d", "ru_a">>
CHETVERG == <<"ru_ch", "ru_e", "ru_t", "ru_v", "ru_e", "ru_r", "ru_g">>
PYATNITSA == <<"ru_p", "ru_ya", "ru_t", "ru_n", "ru_i", "ru_ts", "ru_a">>
SUBBOTA == <<"ru_s", "ru_u", "ru_b", "ru_b", "ru_o", "ru_t", "ru_a">>
VOSKRESENYE == <<"ru_v", "ru_o", "ru_s", "ru_k", "ru_r", "ru_e", "ru_s", "ru_e",
                 "ru_n", "ru_soft", "ru_e">>

RU_WEEKDAYS == <<PONEDELNIK, VTORNIK, SREDA, CHETVERG, PYATNITSA, SUBBOTA, VOSKRESENYE>>

----------------------------------------------------------------------------
(* Parity aliases: src/main.py detect_parity. *)

ODD_ALIASES ==
    { <<"ru_n", "/", "ru_n">>, <<"ru_n", "-", "ru_n">>, <<"ru_n", "ru_n">>,
      <<"o", "d", "d">> }
EVEN_ALIASES ==
    { <<"ru_ch", "/", "ru_n">>, <<"ru_ch", "-", "ru_n">>, <<"ru_ch", "ru_n">>,
      <<"e", "v", "e", "n">> }

detect_parity(token) ==
    LET t == remove_spaces(lower(token))
    IN  IF t \in ODD_ALIASES THEN "odd"
        ELSE IF t \in EVEN_ALIASES THEN "even"
        ELSE None

----------------------------------------------------------------------------
(* Command Interpreter: src/main.py parse_add_lesson_args. *)

ERR_MIN_PARTS == "add: at least 4 parts"
ERR_DAY == "day: must be a weekday name"
ERR_SLOT_RANGE == "slot: must be 1..4"
ERR_SLOT_NUMBER == "slot: must be a number 1..4"
ERR_BRACKETS == "add: no brackets with weeks"
ERR_NO_ROOM == "room: not given (no tokens)"
ERR_NO_ROOM_AFTER == "add: no room after the brackets"

\* int(token): an optional sign and digits; anything else raises ValueError
int(token) ==
    LET signed == token # <<>> /\ token[1] \in {"+", "-"}
        body == IF signed THEN Tail(token) ELSE token
    IN  IF all_digits(body)
        THEN [ok |-> TRUE,
              val |-> IF signed /\ token[1] = "-" THEN 0 - digits_value(body)
                      ELSE digits_value(body)]
        ELSE [ok |-> FALSE, val |-> 0]

\* str(n) of an integer: its decimal numeral
RECURSIVE str(_)
str(n) ==
    IF n < 0 THEN <<"-">> \o str(0 - n)
    ELSE IF n < 10 THEN << CHOOSE c \in Digits : DigitVal[c] = n >>
    ELSE str(n \div 10) \o << CHOOSE c \in Digits : DigitVal[c] = n % 10 >>

\* the weeks_spec default
ALL_WEEKS_SPEC == <<"1", "-", "3", "0">>

\* the tail after the brackets with a two-word tail read as a room followed
\* by free text: a faulty variant of parse_tail
parse_tail_lenient(after) ==
    IF after # <<>> THEN
        At(split(after), LAMBDA tokens :
        At(detect_parity(tokens[1]), LAMBDA p :
        At(IF p # None THEN _parse_room_from_tokens(tokens, 1)
           ELSE _parse_room_from_tokens(<<tokens[1]>>, 0), LAMBDA found :
            [parity |-> p, room |-> found.room, err |-> found.err])))
    ELSE [parity |-> None, room |-> NoneText, err |-> ERR_NO_ROOM_AFTER]

\* the text after the closing bracket: an optional parity, then the room;
\* the result is (parity, room, error)
parse_tail(after) ==
    IF after # <<>> THEN
        At(split(after), LAMBDA tokens :
            IF tokens # <<>> THEN
                At(detect_parity(tokens[1]), LAMBDA p :
                At(_parse_room_from_tokens(tokens, IF p # None THEN 1 ELSE 0),
                   LAMBDA found :
                    [parity |-> p, room |-> found.room, err |-> found.err]))
            ELSE [parity |-> None, room |-> NoneText, err |-> ERR_NO_ROOM])
    ELSE [parity |-> None, room |-> NoneText, err |-> ERR_NO_ROOM_AFTER]

ParseError(err) == [parsed |-> NoParsed, err |-> err]

\* the result is the pair (parsed, error); parsed is (group, day, slot, lesson)
parse_add_lesson_args(args0) ==
    At(args0, LAMBDA args :
    At(split(args), LAMBDA parts :
    IF Len(parts) < 4 THEN ParseError(ERR_MIN_PARTS)
    ELSE
    At(<<parts[1], lower(parts[2]), int(parts[3])>>, LAMBDA head :
    LET group == head[1]
        day == head[2]
        n == head[3]
    IN  IF ~list_contains(RU_WEEKDAYS, day) THEN ParseError(ERR_DAY)
        ELSE IF ~n.ok THEN ParseError(ERR_SLOT_NUMBER)
        ELSE IF n.val \notin DOMAIN SLOTS THEN ParseError(ERR_SLOT_RANGE)
        ELSE
        LET slot == n.val
        IN
        At(strip(after_first(args, parts[3])), LAMBDA tail0 :
        At(IF startswith(tail0, str(slot))
           THEN strip(SubSeq(tail0, Len(str(slot)) + 1, Len(tail0)))
           ELSE tail0, LAMBDA tail :
        At(<<find(tail, "("), find(tail, ")")>>, LAMBDA lr :
        LET l == lr[1]
            r == lr[2]
        IN  IF l = 0 \/ r = 0 \/ r < l THEN ParseError(ERR_BRACKETS)
            ELSE
            At(<<strip(SubSeq(tail, 1, l - 1)),
                 strip(SubSeq(tail, l + 1, r - 1)),
                 parse_tail(strip(SubSeq(tail, r + 1, Len(tail))))>>, LAMBDA found :
            LET title == found[1]
                weeks_raw == found[2]
                t == found[3]
            IN  IF t.err # None THEN ParseError(t.err)
                ELSE
                [parsed |->
                    [group |-> group, day |-> day, slot |-> slot,
                     lesson |->
                        Lesson(title, t.room,
                               IF weeks_raw # <<>> THEN weeks_raw ELSE ALL_WEEKS_SPEC,
                               parse_weeks(weeks_raw, DEFAULT_MAX_WEEK),
                               t.parity)],
                 err |-> None])))))))

----------------------------------------------------------------------------
(* Presentation Formatter: src/main.py sanitize_title, room_badge, e,      *)
(* format_day.  A rendered day is kept as its parts: the head line and the *)
(* item lines in order, each item with the fields it prints.               *)

\* the number of leading characters of s that are digits
leading_digits(s) ==
    SetMax({i \in 0..Len(s) : \A k \in 1..i : IsDigit(s[k])})

\* s[n:].lstrip()
drop_lstrip(s, n) == lstrip(SubSeq(s, n + 1, Len(s)))

\* re.sub(r"\s{2,}", " ", t): every maximal run of two or more blanks
\* becomes one space
collapse_blanks(t) ==
    LET in_run(i) ==
            /\ IsSpace(t[i])
            /\ \/ (i > 1 /\ IsSpace(t[i - 1]))
               \/ (i < Len(t) /\ IsSpace(t[i + 1]))
        \* a run is replaced at its first character and dropped elsewhere
        keep == [i \in 1..Len(t) |->
                    IF ~in_run(i) THEN <<t[i]>>
                    ELSE IF i = 1 \/ ~IsSpace(t[i - 1]) THEN <<" ">>
                    ELSE <<>>]
        RECURSIVE glue(_)
        glue(i) == IF i > Len(t) THEN <<>> ELSE keep[i] \o glue(i + 1)
    IN  glue(1)

sanitize_title(title) ==
    LET t0 == strip(title)
        i == leading_digits(lower(t0))
        t1 == IF i > 0 /\ i <= 2 THEN drop_lstrip(t0, i) ELSE t0
        hits == {d \in 1..Len(RU_WEEKDAYS) : startswith(lower(t1), RU_WEEKDAYS[d])}
        t2 == IF hits = {} THEN t1
              ELSE LET day == RU_WEEKDAYS[SetMin(hits)]
                       u == drop_lstrip(t1, Len(day))
                       j == leading_digits(lower(u))
                   IN  IF j = 1 THEN drop_lstrip(u, j) ELSE u
    IN  strip(collapse_blanks(t2))

BADGE_REMOTE == "badge: computer"
BADGE_GYM == "badge: stadium"
BADGE_ROOM == "badge: school"

room_badge(room) ==
    LET r == lower(room)
    IN  IF r = ROOM_DO THEN BADGE_REMOTE
        ELSE IF r = ROOM_SZAL THEN BADGE_GYM
        ELSE BADGE_ROOM

\* html.escape of one character
escape_char(c) ==
    CASE c = "&" -> <<"&", "a", "m", "p", ";">>
      [] c = "<" -> <<"&", "l", "t", ";">>
      [] c = ">" -> <<"&", "g", "t", ";">>
      [] c = "\"" -> <<"&", "q", "u", "o", "t", ";">>
      [] c = "'" -> <<"&", "#", "x", "2", "7", ";">>
      [] OTHER -> <<c>>

\* e(s) = html.escape(s)
RECURSIVE e(_)
e(s) == IF s = <<>> THEN <<>> ELSE escape_char(Head(s)) \o e(Tail(s))

UpperOf == [c \in {LowerOf[u] : u \in DOMAIN LowerOf} |->
               CHOOSE u \in DOMAIN LowerOf : LowerOf[u] = c]

\* str.capitalize()
capitalize(s) ==
    [i \in 1..Len(s) |->
        IF i = 1 THEN (IF s[i] \in DOMAIN UpperOf THEN UpperOf[s[i]] ELSE s[i])
        ELSE lower_char(s[i])]

\* dict.get(key, default)
dict_get(d, key, default) == IF key \in DOMAIN d THEN d[key] ELSE default

\* d[key] = value
dict_set(d, key, value) ==
    [k \in DOMAIN d \cup {key} |-> IF k = key THEN value ELSE d[k]]

\* d without key (the dict after d.pop(key))
dict_without(d, key) == [k \in DOMAIN d \ {key} |-> d[k]]

EmptyDict == <<>>

\* the slots of SLOTS that format_day prints for week wk, ascending
shown_slots(day_data, wk) ==
    {slot \in DOMAIN SLOTS :
        /\ str(slot) \in DOMAIN day_data
        /\ lesson_matches_week(day_data[str(slot)], wk)}

format_day(group, day, wk, docs) ==
    LET group_data == dict_get(docs, group, EmptyDict)
        day_data == dict_get(group_data, day, EmptyDict)
        order == sorted(shown_slots(day_data, wk))
        item(slot) ==
            LET lesson == day_data[str(slot)]
            IN  [slot |-> slot, time |-> SLOTS[slot],
                 title |-> e(sanitize_title(lesson.title)),
                 badge |-> room_badge(lesson.room),
                 room |-> e(lesson.room)]
    IN  [head |-> [group |-> e(group), day |-> e(capitalize(day)), wk |-> wk],
         items |-> [k \in 1..Len(order) |-> item(order[k])],
         no_lessons |-> (order = <<>>)]

----------------------------------------------------------------------------
(* Messages and authorization: src/main.py is_admin, scope_id,             *)
(* is_chat_admin.  A message carries its chat, its sender (absent on a     *)
(* channel post) and what bot.get_chat_member would answer for the sender. *)

Message(chat_type, chat_id, has_from, from_id, member_status) ==
    [chat_type |-> chat_type, chat_id |-> chat_id, has_from |-> has_from,
     from_id |-> from_id, member_status |-> member_status]

\* is_admin with the test on the sender dropped: a faulty variant
is_admin_anyone(uid) == admin_id # 0

\* ADMIN_ID and uid == ADMIN_ID
is_admin(uid) == admin_id # 0 /\ uid = admin_id

GROUP_CHATS == {"group", "supergroup", "channel"}

scope_id(m) ==
    IF m.chat_type \in GROUP_CHATS THEN str(m.chat_id) ELSE str(m.from_id)

\* get_chat_member raising, or from_user being None, is caught: False
is_chat_admin(m) ==
    IF m.chat_type = "private" THEN TRUE
    ELSE IF ~m.has_from THEN FALSE
    ELSE IF m.member_status = "error" THEN FALSE
    ELSE m.member_status \in {"administrator", "creator"}

----------------------------------------------------------------------------
(* The documents: src/main.py _load_json, _save_json and their wrappers.   *)
(* Each variable holds what its file decodes to ({} when the file is       *)
(* absent).  The documents the bot writes are string-keyed dicts of        *)
(* strings, integer lists and None, which json.dumps and json.loads give   *)
(* back unchanged.                                                         *)

load_schedules == schedules
load_users == users

\* (command.args or "")
args_or_empty(command_args) == IF command_args = NoneText THEN <<>> ELSE command_args

\* the replies
MSG_ADMIN_ONLY == "admin only"
MSG_ADD_ERROR == "add_lesson: format, examples and the parse error"
MSG_ADDED == "add_lesson: added"
MSG_DEL_FORMAT == "del_lesson: format"
MSG_NOT_FOUND == "del_lesson: no such lesson"
MSG_DELETED == "del_lesson: deleted"
MSG_SEMESTER_FORMAT == "set_semester: format"
MSG_SEMESTER_SET == "set_semester: set"
MSG_SETGROUP_HINT == "setgroup: give a group"
MSG_CHAT_ADMIN_ONLY == "setgroup: chat admin only"
MSG_GROUP_SAVED == "setgroup: saved"

\* m.answer(text): one reply to the chat of m
Reply(m, msg, detail) == [chat |-> m.chat_id, msg |-> msg, detail |-> detail]

\* what a handler does: the documents after it, its replies, its saves
Effect(new_schedules, new_users, new_semester, replies, saved) ==
    [schedules |-> new_schedules, users |-> new_users, semester |-> new_semester,
     out |-> replies, saves |-> saved]

\* a handler that only replies
ReplyOnly(m, msg, detail) ==
    Effect(schedules, users, semester, <<Reply(m, msg, detail)>>, <<>>)

----------------------------------------------------------------------------
(* The commands the bot is run on. *)

\* ADMIN_ID as configured (7), or left at its default 0
AdminIds == {0, 7}

PrivateAdmin == Message("private", 7, TRUE, 7, "-")
PrivateUser == Message("private", 8, TRUE, 8, "-")
GroupBotAdmin == Message("group", -5, TRUE, 7, "member")
GroupChatAdmin == Message("group", -5, TRUE, 8, "administrator")
SupergroupCreator == Message("supergroup", -6, TRUE, 8, "creator")
SupergroupMember == Message("supergroup", -6, TRUE, 8, "member")
GroupLookupFails == Message("group", -5, TRUE, 8, "error")
ChannelPost == Message("channel", -9, FALSE, 0, "-")

\* the pieces an add_lesson argument text is written from
AddFields(group, day, slot, title, shape, weeks, tail) ==
    [group |-> group, day |-> day, slot |-> slot, title |-> title,
     shape |-> shape, weeks |-> weeks, tail |-> tail]

\* the bracket part as written: well-formed, absent, or closed before opened
Brackets(f) ==
    CASE f.shape = "ok" -> <<"(">> \o f.weeks \o <<")">>
      [] f.shape = "none" -> <<>>
      [] f.shape = "reversed" -> <<")">> \o f.weeks \o <<"(">>

AddText(f) == join(<<f.group, f.day, f.slot, f.title \o Brackets(f)>> \o f.tail)

GROUP_G == <<"G">>
GROUP_G2 == <<"G", "2">>
\* a group name with the slot's digit followed by an opening bracket
GROUP_PAREN == <<"2", "(", "x">>
DAY_CAPITAL == <<"RU_P">> \o Tail(PONEDELNIK)

WEEKS_2_13 == <<"2", "-", "1", "3">>
WEEKS_MIXED == <<"5", "-", "2", ",", "4", "0", ",", "x">>
TOK_NN == <<"ru_n", "/", "ru_n">>
TOK_CHN_UPPER == <<"RU_CH", "RU_N">>
TOK_101 == <<"1", "0", "1">>
TOK_DO_UPPER == <<"RU_D", "/", "RU_O">>

\* the keys written to: two slots of one day, another day, another group
AddKeys ==
    { <<GROUP_G, PONEDELNIK, <<"1">> >>, <<GROUP_G, DAY_CAPITAL, <<"2">> >>,
      <<GROUP_G, SREDA, <<"1">> >>, <<GROUP_G2, PONEDELNIK, <<"2">> >> }

\* the lessons written: (title, weeks, tail)
LESSON_A == << <<"A">>, WEEKS_2_13, <<TOK_NN, TOK_101>> >>
LESSON_B == << <<"B">>, <<>>, <<TOK_DO_UPPER>> >>
LESSON_C == << <<"A">>, WEEKS_MIXED, <<TOK_CHN_UPPER, <<"7">> >> >>

WellFormedAdds ==
    {AddFields(k[1], k[2], k[3], l[1], "ok", l[2], l[3]) :
        k \in AddKeys, l \in {LESSON_A, LESSON_B}}
    \cup { AddFields(GROUP_G, PONEDELNIK, <<"1">>, LESSON_C[1], "ok", LESSON_C[2],
                     LESSON_C[3]),
           AddFields(GROUP_G, PONEDELNIK, <<"0", "2">>, LESSON_C[1], "ok", LESSON_C[2],
                     LESSON_C[3]),
           AddFields(GROUP_PAREN, PONEDELNIK, <<"2">>, <<"A">>, "ok", WEEKS_2_13,
                     <<TOK_101>>) }

\* one text per rejection of parse_add_lesson_args
MalformedAdds ==
    { AddFields(GROUP_G, <<"m", "o", "n">>, <<"1">>, <<"A">>, "ok", WEEKS_2_13, <<TOK_101>>),
      AddFields(GROUP_G, PONEDELNIK, <<"5">>, <<"A">>, "ok", WEEKS_2_13, <<TOK_101>>),
      AddFields(GROUP_G, PONEDELNIK, <<"x">>, <<"A">>, "ok", WEEKS_2_13, <<TOK_101>>),
      AddFields(GROUP_G, PONEDELNIK, <<"1">>, <<>>, "none", <<>>, <<>>),
      AddFields(GROUP_G, PONEDELNIK, <<"1">>, <<"A">>, "none", <<>>, <<TOK_101>>),
      AddFields(GROUP_G, PONEDELNIK, <<"1">>, <<"A">>, "reversed", WEEKS_2_13, <<TOK_101>>),
      AddFields(GROUP_G, PONEDELNIK, <<"1">>, <<"A">>, "ok", WEEKS_2_13, <<>>),
      AddFields(GROUP_G, PONEDELNIK, <<"1">>, <<"A">>, "ok", WEEKS_2_13, <<TOK_NN>>),
      AddFields(GROUP_G, PONEDELNIK, <<"1">>, <<"A">>, "ok", WEEKS_2_13,
                <<TOK_101, <<"2", "0", "2">> >>),
      AddFields(GROUP_G, PONEDELNIK, <<"1">>, <<"A">>, "ok", WEEKS_2_13,
                << <<"1", "0", "1", "ru_a">> >>) }

AddInputs == WellFormedAdds \cup MalformedAdds

\* the pieces a del_lesson argument text is written from
DelFields(tokens) == [tokens |-> tokens]

\* deletions of the keys written to, in other spellings, of keys never
\* written to, and one text per rejection of del_lesson
DelInputs ==
    {DelFields(<<k[1], k[2], k[3]>>) : k \in AddKeys}
    \cup { DelFields(<<GROUP_G, PONEDELNIK, <<"0", "2">> >>),
           DelFields(<<GROUP_G, PONEDELNIK, <<"+", "1">> >>),
           DelFields(<<GROUP_G, PONEDELNIK, <<"3">>, <<"x">> >>),
           DelFields(<<GROUP_G, VTORNIK, <<"1">> >>),
           DelFields(<<GROUP_G, <<"m", "o", "n">>, <<"1">> >>),
           DelFields(<<GROUP_G, PONEDELNIK, <<"5">> >>),
           DelFields(<<GROUP_G, PONEDELNIK, <<"x">> >>),
           DelFields(<<GROUP_G, PONEDELNIK>>) }

DATE_PADDED == <<"2", "0", "2", "5", "-", "0", "9", "-", "0", "1">>
DATE_BARE == <<"2", "0", "2", "4", "-", "2", "-", "2", "9">>

SemesterInputs ==
    { DATE_PADDED, DATE_BARE, NoneText, <<"x">>,
      <<"2", "0", "2", "5", "-", "0", "2", "-", "2", "9">>,
      <<"2", "0", "2", "5", "-", "1", "3", "-", "0", "1">>,
      <<"0", "1", ".", "0", "9", ".", "2", "0", "2", "5">>,
      <<"2", "5", "-", "0", "9", "-", "0", "1">> }

SetGroupInputs == {NoneText, <<" ">>, GROUP_G}

\* The commands: a message and its argument text (with the pieces it was
\* written from).  add_lesson, del_lesson and set_semester are registered for
\* messages only; setgroup for messages and for channel posts.
Command(name, m, f, text) == [name |-> name, m |-> m, f |-> f, args |-> text]

AddCommands ==
    {Command("add_lesson", PrivateAdmin, f, AddText(f)) : f \in AddInputs}
    \cup {Command("add_lesson", m, f, AddText(f)) :
            m \in {PrivateUser, GroupBotAdmin},
            f \in { AddFields(GROUP_G, PONEDELNIK, <<"1">>, LESSON_A[1], "ok",
                              LESSON_A[2], LESSON_A[3]),
                    AddFields(GROUP_G, PONEDELNIK, <<"5">>, <<"A">>, "ok", WEEKS_2_13,
                              <<TOK_101>>) }}
    \cup {Command("add_lesson", PrivateAdmin, AddFields(<<>>, <<>>, <<>>, <<>>, "none",
                                                     <<>>, <<>>), NoneText)}

DelCommands ==
    {Command("del_lesson", PrivateAdmin, f, join(f.tokens)) : f \in DelInputs}
    \cup {Command("del_lesson", m, f, join(f.tokens)) :
            m \in {PrivateUser, GroupBotAdmin},
            f \in {DelFields(<<GROUP_G, PONEDELNIK, <<"1">> >>)}}

SemesterCommands ==
    {Command("set_semester", PrivateAdmin, None, d) : d \in SemesterInputs}
    \cup {Command("set_semester", PrivateUser, None, d) : d \in {DATE_PADDED, <<"x">>}}

SetGroupCommands ==
    {Command("setgroup", m, None, g) :
        m \in {PrivateUser, GroupChatAdmin, SupergroupCreator, SupergroupMember,
               GroupLookupFails, ChannelPost},
        g \in SetGroupInputs}

\* parse_add_lesson_args on the add_lesson texts above, computed once
ParsedAddTexts ==
    [args \in {strip(args_or_empty(c.args)) : c \in AddCommands} |->
        parse_add_lesson_args(args)]

\* parse_add_lesson_args(args), read from the table where it holds args
parse_add_lesson_args_of(args) == ParsedAddTexts[args]

----------------------------------------------------------------------------
(* Admin commands: src/main.py add_lesson, del_lesson, set_semester.       *)

\* lines 489-490 with the day's dict replaced instead of updated: a faulty
\* variant that loses the day's other slots
store_lesson_fresh_day(docs, group, day, slot, lesson) ==
    LET group_data == dict_get(docs, group, EmptyDict)
    IN  dict_set(docs, group,
            dict_set(group_data, day, dict_set(EmptyDict, str(slot), lesson)))

\* schedules.setdefault(group, {}).setdefault(day, {});
\* schedules[group][day][str(slot)] = asdict(lesson)
store_lesson(docs, group, day, slot, lesson) ==
    LET group_data == dict_get(docs, group, EmptyDict)
        day_data == dict_get(group_data, day, EmptyDict)
    IN  dict_set(docs, group,
            dict_set(group_data, day, dict_set(day_data, str(slot), lesson)))

add_lesson(m, command_args) ==
    IF ~is_admin(m.from_id) THEN ReplyOnly(m, MSG_ADMIN_ONLY, None)
    ELSE
    At(parse_add_lesson_args_of(strip(args_or_empty(command_args))), LAMBDA res :
        IF res.err # None THEN ReplyOnly(m, MSG_ADD_ERROR, res.err)
        ELSE
        LET stored == store_lesson(load_schedules, res.parsed.group, res.parsed.day,
                                   res.parsed.slot, res.parsed.lesson)
        IN  Effect(stored, users, semester,
                   <<Reply(m, MSG_ADDED, None)>>, <<"schedules">>))

\* the test of line 520 asking only whether the day holds any lesson: a
\* faulty variant
lesson_stored_any_slot(docs, group, day, slot) ==
    DOMAIN dict_get(dict_get(docs, group, EmptyDict), day, EmptyDict) # {}

\* whether schedules.get(group, {}).get(day, {}) holds the key str(slot)
lesson_stored(docs, group, day, slot) ==
    str(slot) \in DOMAIN dict_get(dict_get(docs, group, EmptyDict), day, EmptyDict)

\* the document after schedules.get(group, {}).get(day, {}).pop(str(slot), None)
\* has removed a stored lesson
pop_lesson(docs, group, day, slot) ==
    LET group_data == dict_get(docs, group, EmptyDict)
        day_data == dict_get(group_data, day, EmptyDict)
    IN  dict_set(docs, group,
            dict_set(group_data, day, dict_without(day_data, str(slot))))

del_lesson(m, command_args) ==
    IF ~is_admin(m.from_id) THEN ReplyOnly(m, MSG_ADMIN_ONLY, None)
    ELSE
    LET args == split(strip(args_or_empty(command_args)))
    IN  IF Len(args) < 3 THEN ReplyOnly(m, MSG_DEL_FORMAT, None)
        ELSE
        LET group == args[1]
            day == lower(args[2])
            n == int(args[3])
        IN  IF ~list_contains(RU_WEEKDAYS, day) THEN ReplyOnly(m, ERR_DAY, None)
            ELSE IF ~n.ok \/ n.val \notin DOMAIN SLOTS
                THEN ReplyOnly(m, ERR_SLOT_NUMBER, None)
            ELSE IF ~lesson_stored(load_schedules, group, day, n.val)
                THEN ReplyOnly(m, MSG_NOT_FOUND, None)
            ELSE Effect(pop_lesson(load_schedules, group, day, n.val), users, semester,
                        <<Reply(m, MSG_DELETED, None)>>, <<"schedules">>)

\* the days of a month of the proleptic Gregorian calendar
is_leap(year) == (year % 4 = 0 /\ year % 100 # 0) \/ year % 400 = 0
days_in_month(year, month) ==
    IF month = 2 THEN (IF is_leap(year) THEN 29 ELSE 28)
    ELSE IF month \in {4, 6, 9, 11} THEN 30 ELSE 31

\* datetime.strptime(d, "%Y-%m-%d") does not raise: %Y is four digits, %m is
\* 1[0-2]|0[1-9]|[1-9], %d is 3[01]|[12]\d|0[1-9]|[1-9]| [1-9], and the three
\* numbers are a date of the calendar (years 1..9999)
strptime_ok(d) ==
    LET parts == split_sep(d, "-")
        two_digit_or_one(t, max) ==
            /\ all_digits(t)
            /\ Len(t) <= 2
            /\ digits_value(t) \in 1..max
    IN  /\ Len(parts) = 3
        /\ Len(parts[1]) = 4 /\ all_digits(parts[1])
        /\ two_digit_or_one(parts[2], 12)
        /\ \/ two_digit_or_one(parts[3], 31)
           \/ Len(parts[3]) = 2 /\ parts[3][1] = " " /\ parts[3][2] \in Digits \ {"0"}
        /\ digits_value(parts[1]) >= 1
        /\ digits_value(strip(parts[3]))
              <= days_in_month(digits_value(parts[1]), digits_value(parts[2]))

set_semester(m, command_args) ==
    IF ~is_admin(m.from_id) THEN ReplyOnly(m, MSG_ADMIN_ONLY, None)
    ELSE
    LET d == strip(args_or_empty(command_args))
    IN  IF ~strptime_ok(d) THEN ReplyOnly(m, MSG_SEMESTER_FORMAT, None)
        ELSE Effect(schedules, users, d,
                    <<Reply(m, MSG_SEMESTER_SET, None)>>, <<"semester">>)

----------------------------------------------------------------------------
(* User command: src/main.py _setgroup_impl (setgroup_msg and              *)
(* setgroup_channel both run it).                                          *)

_setgroup_impl(m, command_args) ==
    LET args == strip(args_or_empty(command_args))
    IN  IF args = <<>> THEN ReplyOnly(m, MSG_SETGROUP_HINT, None)
        ELSE IF m.chat_type \in GROUP_CHATS /\ ~is_chat_admin(m)
            THEN ReplyOnly(m, MSG_CHAT_ADMIN_ONLY, None)
        ELSE Effect(schedules, dict_set(load_users, scope_id(m), args), semester,
                    <<Reply(m, MSG_GROUP_SAVED, None)>>, <<"users">>)

----------------------------------------------------------------------------
(* The bot's documents before any command. *)

EmptyDoc == EmptyDict

BotIdle ==
    /\ admin_id = 0
    /\ schedules = EmptyDoc
    /\ users = EmptyDoc
    /\ semester = NoneText
    /\ cmd = NoCmd
    /\ out = <<>>
    /\ saves = <<>>
    /\ ncmds = 0
    /\ last_add = EmptyDict

BotVars == <<admin_id, schedules, users, semester, cmd, out, saves, ncmds, last_add>>

----------------------------------------------------------------------------
(* The claims' reading of a weeks spec, stated apart from parse_weeks. *)

\* A numeral is a non-empty string of
\* digits, blanks around it ignored; its value is positional.
Pow10(k) == IF k = 0 THEN 1 ELSE IF k = 1 THEN 10 ELSE IF k = 2 THEN 100
            ELSE IF k = 3 THEN 1000 ELSE IF k = 4 THEN 10000 ELSE 100000

NoBlanks(t) == SelectSeq(t, LAMBDA c : c \notin Whitespace)

\* blanks only at the two ends of t, digits between them
IsNumeral(t) ==
    LET core == NoBlanks(t)
    IN  /\ core # <<>>
        /\ \A i \in 1..Len(core) : core[i] \in Digits
        /\ \E i \in 1..Len(t) : \E j \in i..Len(t) :
              /\ SubSeq(t, i, j) = core
              /\ \A k \in (1..(i - 1)) \cup ((j + 1)..Len(t)) : t[k] \in Whitespace

NumeralValue(t) ==
    LET core == NoBlanks(t)
        n == Len(core)
        RECURSIVE Sum(_)
        Sum(i) == IF i > n THEN 0 ELSE DigitVal[core[i]] * Pow10(n - i) + Sum(i + 1)
    IN  Sum(1)

\* the comma-separated tokens of a spec
CommaTokens(spec) ==
    LET commas == {0, Len(spec) + 1} \cup {i \in 1..Len(spec) : spec[i] = ","}
    IN  {SubSeq(spec, i + 1, j - 1) :
            <<i, j>> \in {p \in commas \X commas :
                            /\ p[1] < p[2]
                            /\ \A k \in commas : ~(p[1] < k /\ k < p[2])}}

\* token names week w: it is the integer w, or a range a-b around w
TokenNames(token, w) ==
    \/ IsNumeral(token) /\ NumeralValue(token) = w
    \/ \E i \in 1..Len(token) :
          /\ token[i] = "-"
          /\ IsNumeral(SubSeq(token, 1, i - 1))
          /\ IsNumeral(SubSeq(token, i + 1, Len(token)))
          /\ LET a == NumeralValue(SubSeq(token, 1, i - 1))
                 b == NumeralValue(SubSeq(token, i + 1, Len(token)))
             IN  (a <= w /\ w <= b) \/ (b <= w /\ w <= a)

NamedWeeks(spec, max_week) ==
    {w \in 1..max_week : \E token \in CommaTokens(spec) : TokenNames(token, w)}

\* r is the ascending list of the set S
IsAscendingListOf(r, S) ==
    /\ r \in Seq(Int)
    /\ Len(r) = Cardinality(S)
    /\ SeqToSet(r) = S
    /\ \A i \in 1..Len(r) : \A j \in 1..Len(r) : i < j => r[i] < r[j]

----------------------------------------------------------------------------
(* Spec: the bot handling up to MaxCmds commands.  Each action is one      *)
(* handler run to completion on one inbound command, drawn from the        *)
(* command sets above.                                                     *)

Init ==
    /\ call = NoCall
    /\ ret = NoRet
    /\ admin_id \in AdminIds
    /\ schedules = EmptyDoc
    /\ users = EmptyDoc
    /\ semester = NoneText
    /\ cmd = NoCmd
    /\ out = <<>>
    /\ saves = <<>>
    /\ ncmds = 0
    /\ last_add = EmptyDict

\* no more than MaxCmds commands are sent
MoreCommands == ncmds < MaxCmds

\* one command handled: the handler's effect becomes the next state
Handle(c, effect) ==
    /\ cmd' = c
    /\ schedules' = effect.schedules
    /\ users' = effect.users
    /\ semester' = effect.semester
    /\ out' = effect.out
    /\ saves' = effect.saves
    /\ ncmds' = ncmds + 1
    /\ UNCHANGED <<call, ret, admin_id>>

\* The claims' reading of the key a command names: the group as written, the
\* weekday in lower case, the slot as a number.
DayNamed(day) == [i \in 1..Len(day) |-> lower_char(day[i])]
\* a slot is written as a decimal numeral, a plus sign before it allowed
SlotDigits(slot) == IF slot # <<>> /\ slot[1] = "+" THEN Tail(slot) ELSE slot
SlotNamed(slot) == NumeralValue(SlotDigits(slot))
KeyNamed(group, day, slot) == <<group, DayNamed(day), SlotNamed(slot)>>

AddLesson ==
    /\ MoreCommands
    /\ \E c \in AddCommands : \E effect \in {add_lesson(c.m, c.args)} :
          /\ Handle(c, effect)
          /\ last_add' =
                IF effect.out[1].msg = MSG_ADDED
                THEN dict_set(last_add, KeyNamed(c.f.group, c.f.day, c.f.slot),
                              parse_add_lesson_args_of(strip(c.args)).parsed.lesson)
                ELSE last_add

DelLesson ==
    /\ MoreCommands
    /\ \E c \in DelCommands : \E effect \in {del_lesson(c.m, c.args)} :
          /\ Handle(c, effect)
          /\ last_add' =
                IF effect.out[1].msg = MSG_DELETED
                THEN dict_without(last_add,
                                  KeyNamed(c.f.tokens[1], c.f.tokens[2], c.f.tokens[3]))
                ELSE last_add

SetSemester ==
    /\ MoreCommands
    /\ \E c \in SemesterCommands : \E effect \in {set_semester(c.m, c.args)} :
          /\ Handle(c, effect)
          /\ UNCHANGED last_add

SetGroup ==
    /\ MoreCommands
    /\ \E c \in SetGroupCommands : \E effect \in {_setgroup_impl(c.m, c.args)} :
          /\ Handle(c, effect)
          /\ UNCHANGED last_add

Next == AddLesson \/ DelLesson \/ SetSemester \/ SetGroup

Spec == Init /\ [][Next]_vars

----------------------------------------------------------------------------
(* SpecWeek: week_number applied to every pair of dates in 1..MaxDay. *)

Dates == 1..MaxDay

InitWeek ==
    /\ call \in [fn : {"week_number"}, today : Dates, start : Dates]
    /\ ret = NoRet
    /\ BotIdle

CallWeekNumber ==
    /\ call.fn = "week_number"
    /\ ret = NoRet
    /\ ret' = [val |-> week_number(call.today, call.start)]
    /\ UNCHANGED <<call, BotVars>>

NextWeek == CallWeekNumber

SpecWeek == InitWeek /\ [][NextWeek]_vars

WeekReturned == call.fn = "week_number" /\ ret # NoRet

\* C1: week_number(today, start) is 0 when today is before start and
\* otherwise the 1-based index w of the 7-day block that holds today
\* (7*(w-1) <= days elapsed < 7*w, that is floor(days/7) + 1); the start day
\* and the six days after it are week 1, day 7 opens week 2, and the result
\* is never negative.
C1_WeekNumber ==
    WeekReturned =>
        LET d == call.today - call.start
            w == ret.val
        IN  /\ w \in Nat
            /\ (d < 0) => (w = 0)
            /\ (d >= 0) => (w >= 1 /\ 7 * (w - 1) <= d /\ d < 7 * w)
            /\ (d \in 0..6) => (w = 1)
            /\ (d = 7) => (w = 2)

\* C1 witness: a call with today seven days after the start has returned 2.
C1_Witness ==
    /\ WeekReturned
    /\ call.today - call.start = 7
    /\ ret.val = 2

----------------------------------------------------------------------------
(* SpecParse: parse_weeks applied to every short string over SpecAlphabet, *)
(* and to the longer examples, under several horizons.                     *)

SpecAlphabet == {"1", "3", ",", "-", " ", "a"}

ExampleSpecs ==
    { <<"2", "-", "4", ",", "1", "0">>,
      <<"5", "-", "2">>,
      <<"a", "b", "c">>,
      <<"2", "-", "1", "3">>,
      <<"4", "0", ",", "x">>,
      <<"\t">>,
      <<"3", ",", " ", "3", " ", "-", " ", "5", ",", "4">> }

SpecInputs == StringsUpTo(SpecAlphabet, MaxSpecLen) \cup ExampleSpecs

HorizonInputs == {0, 2, DEFAULT_MAX_WEEK}

InitParse ==
    /\ call \in [fn : {"parse_weeks"}, spec : SpecInputs, max_week : HorizonInputs]
    /\ ret = NoRet
    /\ BotIdle

CallParseWeeks ==
    /\ call.fn = "parse_weeks"
    /\ ret = NoRet
    /\ ret' = [val |-> parse_weeks(call.spec, call.max_week)]
    /\ UNCHANGED <<call, BotVars>>

NextParse == CallParseWeeks

SpecParse == InitParse /\ [][NextParse]_vars

ParseReturned == call.fn = "parse_weeks" /\ ret # NoRet

\* C2: parse_weeks(spec, max_week) is the ascending list of the weeks in
\* 1..max_week that some comma-separated token names (an integer, or a range
\* in either order); when no week is named (empty, blank or junk spec, or
\* only values outside the horizon) it is the full list 1..max_week.
C2_ParseWeeks ==
    ParseReturned =>
        LET S == NamedWeeks(call.spec, call.max_week)
        IN  IF S = {} THEN IsAscendingListOf(ret.val, 1..call.max_week)
            ELSE IsAscendingListOf(ret.val, S)

\* C2 witness: "2-4,10" under horizon 30 has returned [2, 3, 4, 10].
C2_Witness ==
    /\ ParseReturned
    /\ call.spec = <<"2", "-", "4", ",", "1", "0">>
    /\ call.max_week = 30
    /\ ret.val = <<2, 3, 4, 10>>

----------------------------------------------------------------------------
(* SpecMatch: lesson_matches_week applied to lessons over every ascending  *)
(* weeks list within 1..MaxMatchWeek, every parity, and weeks from below 0 *)
(* to beyond the list.                                                     *)

Parities == {"odd", "even", None}

MatchLessons ==
    {Lesson(<<"A">>, <<"1">>, <<>>, weeks, p) :
        weeks \in {sorted(W) : W \in SUBSET (1..MaxMatchWeek)}
                    \cup {<<4, 2, 2>>, <<6, 1>>},
        p \in Parities}

InitMatch ==
    /\ call \in [fn : {"lesson_matches_week"}, lesson : MatchLessons,
                 wk : (-2)..(MaxMatchWeek + 1)]
    /\ ret = NoRet
    /\ BotIdle

CallLessonMatchesWeek ==
    /\ call.fn = "lesson_matches_week"
    /\ ret = NoRet
    /\ ret' = [val |-> lesson_matches_week(call.lesson, call.wk)]
    /\ UNCHANGED <<call, BotVars>>

NextMatch == CallLessonMatchesWeek

SpecMatch == InitMatch /\ [][NextMatch]_vars

MatchReturned == call.fn = "lesson_matches_week" /\ ret # NoRet

IsOdd(n) == \E k \in 0..n : n = 2 * k + 1
IsEven(n) == \E k \in 0..n : n = 2 * k

\* the parity filter agrees with week wk
ParityAgrees(parity, wk) ==
    /\ parity = "odd" => IsOdd(wk)
    /\ parity = "even" => IsEven(wk)

\* C3: lesson_matches_week(lesson, wk) is true exactly when wk >= 1, wk is
\* in lesson.weeks and the parity filter agrees with wk; so it is false for
\* week 0, and weeks [2,4,6] with parity even match weeks 2 and 4 and do not
\* match weeks 3, 5 and 7.
C3_LessonMatchesWeek ==
    MatchReturned =>
        /\ ret.val \in BOOLEAN
        /\ ret.val <=>
              /\ call.wk >= 1
              /\ call.wk \in SeqToSet(call.lesson.weeks)
              /\ ParityAgrees(call.lesson.parity, call.wk)
        /\ (call.wk = 0) => ~ret.val
        /\ (call.lesson.weeks = <<2, 4, 6>> /\ call.lesson.parity = "even") =>
              /\ (call.wk \in {2, 4}) => ret.val
              /\ (call.wk \in {3, 5, 7}) => ~ret.val

\* C3 witness: the lesson with weeks [2,4,6] and parity even was asked about
\* week 4 and matched.
C3_Witness ==
    /\ MatchReturned
    /\ call.lesson.weeks = <<2, 4, 6>>
    /\ call.lesson.parity = "even"
    /\ call.wk = 4
    /\ ret.val = TRUE

----------------------------------------------------------------------------
(* SpecRoom: _parse_room_from_tokens applied to token lists of zero to     *)
(* three tokens, from start_idx 0, 1 and 2.                                *)

RoomAlphabet == {"1", "0", "ru_a"}

ExampleRoomTokens ==
    { ROOM_DO, ROOM_SZAL,
      <<"RU_D", "/", "RU_O">>, <<"ru_d", "\\", "ru_o">>, <<"RU_D", "\\", "ru_o">>,
      <<"RU_S", "/", "RU_Z", "RU_A", "RU_L">>, <<"ru_s", "\\", "ru_z", "ru_a", "ru_l">>,
      <<"ru_d", "/">>, <<"/", "ru_o">>, <<"ru_d", "ru_o">>, <<"ru_d", "/", "ru_o", "1">>,
      <<"2", "0", "2">>, <<"1", "0", "1", "ru_a">>, <<"9", "9", "9", "9", "9">>,
      <<"1", "2", "3", "4", "5", "6">>, <<"-", "1">>, <<"1", ".", "5">>,
      <<"ru_n", "/", "ru_n">> }

RoomTokens == (StringsUpTo(RoomAlphabet, MaxRoomLen) \ {<<>>}) \cup ExampleRoomTokens

\* the tokens that stand before or after the room token in the longer lists
OtherTokens == {<<"ru_n", "/", "ru_n">>, <<"2", "0", "2">>, <<"x">>}

RoomTokenLists ==
    {<<>>}
    \cup {<<t>> : t \in RoomTokens}
    \cup {<<o, t>> : o \in OtherTokens, t \in RoomTokens}
    \cup {<<t, o>> : o \in OtherTokens, t \in ExampleRoomTokens}
    \cup {<<o, t, o>> : o \in OtherTokens, t \in ExampleRoomTokens}

InitRoom ==
    /\ call \in [fn : {"_parse_room_from_tokens"}, tokens : RoomTokenLists,
                 start_idx : 0..2]
    /\ ret = NoRet
    /\ BotIdle

CallParseRoom ==
    /\ call.fn = "_parse_room_from_tokens"
    /\ ret = NoRet
    /\ ret' = _parse_room_from_tokens(call.tokens, call.start_idx)
    /\ UNCHANGED <<call, BotVars>>

NextRoom == CallParseRoom

SpecRoom == InitRoom /\ [][NextRoom]_vars

RoomReturned == call.fn = "_parse_room_from_tokens" /\ ret # NoRet

\* The claim's normal form of a token: lower case, back-slash as slash.
NormalForm(tok) ==
    [i \in 1..Len(tok) |-> IF tok[i] = "\\" THEN "/" ELSE lower_char(tok[i])]

\* a string of 1 to 5 digits, or one of the two symbolic rooms
IsRoomName(t) ==
    \/ Len(t) \in 1..5 /\ \A i \in 1..Len(t) : t[i] \in Digits
    \/ t = <<"ru_d", "/", "ru_o">>
    \/ t = <<"ru_s", "/", "ru_z", "ru_a", "ru_l">>

\* the tokens left from start_idx on
Remaining(tokens, start_idx) == SubSeq(tokens, start_idx + 1, Len(tokens))

\* C9: _parse_room_from_tokens accepts exactly when one token remains from
\* start_idx and its normal form (lower case, back-slash as slash) is 1 to 5
\* digits or one of the two symbolic rooms; it then returns the normal form
\* and no error; in every other case (no token, two tokens, "101a", six
\* digits) it returns no room and an error message.
C9_RoomValidator ==
    RoomReturned =>
        LET rest == Remaining(call.tokens, call.start_idx)
            good == Len(rest) = 1 /\ IsRoomName(NormalForm(rest[1]))
        IN  /\ good => (ret.room = NormalForm(rest[1]) /\ ret.err = None)
            /\ ~good => (ret.room = NoneText /\ ret.err # None)

\* C9 witness: the one token "D/O" in upper case was accepted as the room
\* "d/o" in lower case.
C9_Witness ==
    /\ RoomReturned
    /\ call.tokens = << <<"RU_D", "/", "RU_O">> >>
    /\ call.start_idx = 0
    /\ ret.room = ROOM_DO
    /\ ret.err = None

----------------------------------------------------------------------------
(* SpecTail: parse_add_lesson_args applied to a well-formed head           *)
(* "G <day> 1 A(2-3)" followed by every tail of up to MaxTailTokens tokens. *)

TailTokens ==
    { <<"ru_n", "/", "ru_n">>, <<"RU_CH", "/", "RU_N">>, <<"o", "d", "d">>,
      <<"ru_ch", "ru_n">>,
      <<"1", "0", "1">>, <<"RU_D", "/", "RU_O">>,
      <<"1", "0", "1", "ru_a">>, <<"1", "2", "3", "4", "5", "6">>,
      <<"ru_n", "\\", "ru_n">>, <<"x">> }

TailTokenLists == UNION {[1..k -> TailTokens] : k \in 0..MaxTailTokens}

\* the blanks between the closing bracket and the tail
TailGlues == {<<>>, <<" ", " ">>}

TailHead == <<"G", " ">> \o PONEDELNIK \o <<" ", "1", " ", "A", "(", "2", "-", "3", ")">>

InitTail ==
    /\ call \in {[fn |-> "parse_add_lesson_args", tokens |-> t, glue |-> g,
                  args |-> TailHead \o g \o join(t)] :
                    t \in TailTokenLists, g \in TailGlues}
    /\ ret = NoRet
    /\ BotIdle

CallParseAddLessonArgs ==
    /\ call.fn = "parse_add_lesson_args"
    /\ ret = NoRet
    /\ ret' = parse_add_lesson_args(call.args)
    /\ UNCHANGED <<call, BotVars>>

NextTail == CallParseAddLessonArgs

SpecTail == InitTail /\ [][NextTail]_vars

TailReturned == call.fn = "parse_add_lesson_args" /\ ret # NoRet

\* The claim's reading of a token after the brackets: the parity it is an
\* alias of (None when it is no alias), and whether it is a valid room.
AliasParity(tok) ==
    LET t == [i \in 1..Len(tok) |-> lower_char(tok[i])]
    IN  IF t \in { <<"ru_n", "/", "ru_n">>, <<"ru_n", "-", "ru_n">>,
                   <<"ru_n", "ru_n">>, <<"o", "d", "d">> } THEN "odd"
        ELSE IF t \in { <<"ru_ch", "/", "ru_n">>, <<"ru_ch", "-", "ru_n">>,
                        <<"ru_ch", "ru_n">>, <<"e", "v", "e", "n">> } THEN "even"
        ELSE None

IsValidRoom(tok) == IsRoomName(NormalForm(tok))

\* C10: the text after the closing bracket is accepted in two shapes only:
\* a parity alias followed by one valid room (the lesson gets that parity),
\* or one valid room that is not a parity alias (the lesson gets no parity).
\* An empty tail, a parity alias alone, and two or more tokens whose first
\* is not a parity alias are rejected, the last with the room validator's
\* "must be one word" error.
C10_TailShapes ==
    TailReturned =>
        LET t == call.tokens
            withParity == Len(t) = 2 /\ AliasParity(t[1]) # None /\ IsValidRoom(t[2])
            roomOnly == Len(t) = 1 /\ AliasParity(t[1]) = None /\ IsValidRoom(t[1])
        IN  /\ (ret.parsed # NoParsed) <=> (withParity \/ roomOnly)
            /\ (ret.parsed # NoParsed) <=> (ret.err = None)
            /\ withParity =>
                  /\ ret.parsed.lesson.parity = AliasParity(t[1])
                  /\ ret.parsed.lesson.room = NormalForm(t[2])
            /\ roomOnly =>
                  /\ ret.parsed.lesson.parity = None
                  /\ ret.parsed.lesson.room = NormalForm(t[1])
            /\ (Len(t) = 0) => ret.parsed = NoParsed
            /\ (Len(t) = 1 /\ AliasParity(t[1]) # None) => ret.parsed = NoParsed
            /\ (Len(t) >= 2 /\ AliasParity(t[1]) = None) =>
                  (ret.parsed = NoParsed /\ ret.err = ERR_ROOM_ONE_WORD)

\* C10 witness: the two-token tail "101 x", whose first token is a valid
\* room and no parity alias, was rejected with the "must be one word" error.
C10_Witness ==
    /\ TailReturned
    /\ call.tokens = << <<"1", "0", "1">>, <<"x">> >>
    /\ ret.parsed = NoParsed
    /\ ret.err = ERR_ROOM_ONE_WORD

----------------------------------------------------------------------------
(* Claims about the bot. *)

\* the schedule as a flat map: (group, day, slot number) -> lesson
FlatKeys(docs) ==
    UNION {UNION {{<<g, d, k>> : k \in DOMAIN docs[g][d]} : d \in DOMAIN docs[g]} :
              g \in DOMAIN docs}

Flat(docs) ==
    LET keys == FlatKeys(docs)
    IN  [key \in {<<t[1], t[2], NumeralValue(t[3])>> : t \in keys} |->
            LET t == CHOOSE t \in keys :
                        t[1] = key[1] /\ t[2] = key[2] /\ NumeralValue(t[3]) = key[3]
            IN  docs[t[1]][t[2]][t[3]]]

\* the sender of the command is the administrator
ByAdministrator(c) == admin_id # 0 /\ c.m.has_from /\ c.m.from_id = admin_id

IsWeekday(day) == DayNamed(day) \in SeqToSet(RU_WEEKDAYS)
IsSlot(slot) == IsNumeral(SlotDigits(slot)) /\ SlotNamed(slot) \in 1..4

\* the weeks a weeks spec stands for: the named ones, all 30 when none is
ClaimedWeeks(spec) ==
    IF NamedWeeks(spec, 30) = {} THEN 1..30 ELSE NamedWeeks(spec, 30)

\* the parity a tail asks for
ClaimedParity(tail) == IF Len(tail) = 2 THEN AliasParity(tail[1]) ELSE None

\* the weeks a day is rendered for
RenderWeeks == (-1)..(DEFAULT_MAX_WEEK + 1)

ListedSlots(rendered) == {rendered.items[i].slot : i \in 1..Len(rendered.items)}

AddAccepted == cmd.name = "add_lesson" /\ out[1].msg = MSG_ADDED

\* C4: after an accepted add_lesson for (group, day, slot) with weeks spec W
\* and parity P, format_day of that group and day for week wk lists the slot
\* exactly when wk is one of the weeks W stands for and wk agrees with P.
C4_AddThenQuery ==
    AddAccepted =>
        LET weeks == ClaimedWeeks(cmd.f.weeks)
            parity == ClaimedParity(cmd.f.tail)
            slot == SlotNamed(cmd.f.slot)
            day == DayNamed(cmd.f.day)
        IN  \A wk \in RenderWeeks :
                LET rendered == format_day(cmd.f.group, day, wk, schedules)
                IN  /\ (slot \in ListedSlots(rendered))
                        <=> (wk \in weeks /\ ParityAgrees(parity, wk))
                    /\ rendered.no_lessons <=> (rendered.items = <<>>)

\* C4 divergence: the lesson added for group "2(x", slot 2, with weeks
\* "2-13" and no parity is listed in week 14.  The text after the slot is
\* taken by cutting the argument text at the first "2", which is in the
\* group name; the text from the group's bracket to the title's closing
\* bracket is read as the weeks spec, names no week, and stands for all 30.
C4_Witness ==
    /\ AddAccepted
    /\ cmd.f.group = GROUP_PAREN
    /\ cmd.f.weeks = WEEKS_2_13
    /\ 14 \notin ClaimedWeeks(cmd.f.weeks)
    /\ SlotNamed(cmd.f.slot)
          \in ListedSlots(format_day(cmd.f.group, DayNamed(cmd.f.day), 14, schedules))

\* a step that handles the command c
Handles(c) == ncmds' = ncmds + 1 /\ cmd' = c

DocsUnchanged == schedules' = schedules /\ users' = users /\ semester' = semester

\* C5: a del_lesson by the administrator with a valid day and slot, for a
\* key that holds no lesson, replies "not found", saves nothing and leaves
\* the schedule document as it was, whatever commands came before.
C5_DeleteMissing ==
    [][\A c \in DelCommands :
          ( /\ Handles(c)
            /\ ByAdministrator(c)
            /\ Len(c.f.tokens) >= 3
            /\ IsWeekday(c.f.tokens[2])
            /\ IsSlot(c.f.tokens[3])
            /\ KeyNamed(c.f.tokens[1], c.f.tokens[2], c.f.tokens[3])
                  \notin DOMAIN Flat(schedules) )
          => /\ Len(out') = 1
             /\ out'[1].msg = MSG_NOT_FOUND
             /\ saves' = <<>>
             /\ schedules' = schedules]_vars

\* C5 witness: "not found" was replied for a key whose day holds another
\* lesson.
C5_Witness ==
    /\ cmd.name = "del_lesson"
    /\ out[1].msg = MSG_NOT_FOUND
    /\ saves = <<>>
    /\ \E key \in DOMAIN Flat(schedules) :
          /\ key[1] = cmd.f.tokens[1]
          /\ key[2] = DayNamed(cmd.f.tokens[2])
          /\ key[3] # SlotNamed(cmd.f.tokens[3])

\* the replies that report a rejected input or a denial
ErrorReplies ==
    {MSG_ADMIN_ONLY, MSG_CHAT_ADMIN_ONLY, MSG_ADD_ERROR, MSG_DEL_FORMAT, ERR_DAY,
     ERR_SLOT_NUMBER, MSG_SEMESTER_FORMAT}

\* the text after the brackets names no room: nothing, or anything but one
\* valid room after the optional parity alias
BadRoom(tail) ==
    LET rest == IF tail # <<>> /\ AliasParity(tail[1]) # None THEN Tail(tail) ELSE tail
    IN  ~(Len(rest) = 1 /\ IsValidRoom(rest[1]))

\* a text that is not three dash-separated numerals, or whose numerals name
\* no day of the calendar
MalformedDate(d) ==
    LET parts == IF d = NoneText THEN <<>> ELSE split_sep(d, "-")
    IN  \/ Len(parts) # 3
        \/ \E i \in 1..3 : ~IsNumeral(parts[i])
        \/ /\ Len(parts) = 3
           /\ \A i \in 1..3 : IsNumeral(parts[i])
           /\ \/ NumeralValue(parts[2]) \notin 1..12
              \/ NumeralValue(parts[3]) \notin
                    1..days_in_month(NumeralValue(parts[1]), NumeralValue(parts[2]))

\* the command is rejected for its input
InvalidInput(c) ==
    \/ /\ c.name = "add_lesson"
       /\ \/ ~IsWeekday(c.f.day)
          \/ ~IsSlot(c.f.slot)
          \/ c.f.shape # "ok"
          \/ BadRoom(c.f.tail)
    \/ /\ c.name = "del_lesson"
       /\ \/ Len(c.f.tokens) < 3
          \/ ~IsWeekday(c.f.tokens[2])
          \/ ~IsSlot(c.f.tokens[3])
    \/ /\ c.name = "set_semester"
       /\ MalformedDate(c.args)

\* the command is denied for its sender
Unauthorized(c) ==
    \/ c.name \in {"add_lesson", "del_lesson", "set_semester"} /\ ~ByAdministrator(c)
    \/ /\ c.name = "setgroup"
       /\ c.m.chat_type \in {"group", "supergroup", "channel"}
       /\ ~(c.m.has_from /\ c.m.member_status \in {"administrator", "creator"})

AllCommands == AddCommands \cup DelCommands \cup SemesterCommands \cup SetGroupCommands

\* C6: a command that is rejected for its input (bad day, bad slot, missing
\* or malformed brackets, missing tail, invalid room, malformed date) or
\* denied for its sender, and every command that ends in an error or denial
\* reply, leaves the schedule, the scope bindings and the semester anchor
\* unchanged, saves nothing, and sends exactly one reply.
C6_RejectedCommandsChangeNothing ==
    [][\A c \in AllCommands :
          ( /\ Handles(c)
            /\ \/ InvalidInput(c)
               \/ Unauthorized(c)
               \/ \E i \in 1..Len(out') : out'[i].msg \in ErrorReplies )
          => /\ DocsUnchanged
             /\ saves' = <<>>
             /\ Len(out') = 1
             /\ (c.name # "setgroup") => out'[1].msg \in ErrorReplies]_vars

\* C6 witness: with a lesson stored, an add_lesson by the administrator was
\* rejected for its room.
C6_Witness ==
    /\ cmd.name = "add_lesson"
    /\ ByAdministrator(cmd)
    /\ Len(out) = 1
    /\ out[1].msg = MSG_ADD_ERROR
    /\ out[1].detail = ERR_ROOM_INVALID
    /\ schedules # EmptyDoc

\* C7: the schedule holds, at each key (group, day, slot), the lesson of the
\* last accepted add to that key not followed by a delete of the key, and
\* nothing at any other key; each lesson is stored under its weekday name
\* in lower case and its slot number written in decimal.
C7_ScheduleLifecycle ==
    /\ Flat(schedules) = last_add
    /\ \A t \in FlatKeys(schedules) :
          /\ t[2] \in SeqToSet(RU_WEEKDAYS)
          /\ t[3] \in {<<"1">>, <<"2">>, <<"3">>, <<"4">>}

\* C7 witness: a delete has removed one key while another key of the same
\* day still holds its lesson.
C7_Witness ==
    /\ cmd.name = "del_lesson"
    /\ out[1].msg = MSG_DELETED
    /\ KeyNamed(cmd.f.tokens[1], cmd.f.tokens[2], cmd.f.tokens[3])
          \notin DOMAIN Flat(schedules)
    /\ \E key \in DOMAIN Flat(schedules) :
          /\ key[1] = cmd.f.tokens[1]
          /\ key[2] = DayNamed(cmd.f.tokens[2])

StoredLessons == {Flat(schedules)[key] : key \in DOMAIN Flat(schedules)}

\* C8: every stored lesson's weeks list is strictly ascending (sorted, no
\* duplicates) and holds only weeks in 1..30.
C8_StoredWeeksNormalized ==
    \A lesson \in StoredLessons :
        /\ \A i \in 1..Len(lesson.weeks) : lesson.weeks[i] \in 1..30
        /\ \A i \in 1..(Len(lesson.weeks) - 1) : lesson.weeks[i] < lesson.weeks[i + 1]

\* C8 witness: the lesson written with weeks "5-2,40,x" is stored with the
\* weeks [2, 3, 4, 5].
C8_Witness ==
    \E lesson \in StoredLessons :
        /\ lesson.weeks_spec = WEEKS_MIXED
        /\ lesson.weeks = <<2, 3, 4, 5>>

\* the lesson parse_add_lesson_args gave for the command handled last
ParsedLesson == parse_add_lesson_args_of(strip(cmd.args)).parsed.lesson

\* the texts a title may not take anything from: the group, day and slot
\* tokens as written
HeadTokens == {cmd.f.group, cmd.f.day, cmd.f.slot}

\* t occurs in s as a run of consecutive characters
OccursIn(t, s) ==
    \E i \in 1..(Len(s) - Len(t) + 1) : SubSeq(s, i, i + Len(t) - 1) = t

\* C11: for every accepted add_lesson text, whatever the group name, the
\* parsed lesson's title is the trimmed text between the slot token and the
\* first "(" after it, its weeks spec is the text between that "(" and the
\* first ")" ("1-30" when that text is empty), and its parity and room are
\* those of the text after the ")".
C11_TitleFromTextAfterSlot ==
    AddAccepted =>
        /\ ParsedLesson.title = strip(cmd.f.title)
        /\ ParsedLesson.weeks_spec =
              (IF strip(cmd.f.weeks) = <<>> THEN ALL_WEEKS_SPEC ELSE strip(cmd.f.weeks))
        /\ ParsedLesson.parity = ClaimedParity(cmd.f.tail)
        /\ ParsedLesson.room = NormalForm(cmd.f.tail[Len(cmd.f.tail)])

\* C11 divergence: for group "G2" and slot 2 the argument text is cut at
\* the "2" of the group name, and the parsed title holds the day and slot
\* tokens before the title that was written.
C11_Witness ==
    /\ AddAccepted
    /\ cmd.f.group = GROUP_G2
    /\ cmd.f.title = <<"A">>
    /\ ParsedLesson.title = PONEDELNIK \o <<" ", "2", " ", "A">>
    /\ \E t \in HeadTokens : OccursIn(t, ParsedLesson.title)

====
